---- MODULE Spec2Model ----
(***************************************************************************)
(* The ZigZag exchange message codec of src/src/zigzag.rs: the Operation   *)
(* envelope, its positional argument records, the Price and                *)
(* RemainingOrError scalars and the OrderStatus / Side short codes, as     *)
(* serde, serde_tuple and serde_json (de)serialize them.                   *)
(*                                                                         *)
(* A behaviour is one use of the codec: a value is constructed and         *)
(* serialized (ToValue), or a frame is received, and the JSON is           *)
(* deserialized to the type ty (FromStr).                                  *)
(*                                                                         *)
(* Representation.  A JSON value is a record [k, n, s, a]: its kind, its   *)
(* number, its string and its elements (an object's elements are its       *)
(* members, of kind "kv", keyed by s).  serde_json keeps integers and      *)
(* floating point numbers apart ("int" / "float"); a float is held in      *)
(* tenths.  A Rust value is a record [t, n, s, f]: its type or             *)
(* constructor, its number, its string and its fields.  An f64 is held in  *)
(* tenths, with s naming a non-finite value ("NaN", "inf").  TLC's         *)
(* integers end at 2^31-1, so the sample integers stay below that and the  *)
(* upper ends of u32 and u64 are not modelled.                             *)
(***************************************************************************)
EXTENDS Integers, Sequences, FiniteSets, TLC

VARIABLES
  ty,      \* the Rust type T of to_value::<T> / from_str::<T>
  value,   \* the value the caller constructed (NoValue for a received frame)
  json,    \* the JSON on the wire (NoJson before serialization)
  result,  \* what deserialization returned (NoResult before it)
  float,   \* what Price::float_value returned (NoValue before a call)
  pc       \* "constructed" | "received" | "encoded" | "decoded"

vars == <<ty, value, json, result, float, pc>>

\* The longest Vec the sampled values hold.
MaxVecLen == 1
\* The most elements appended to a full positional array in a received frame.
MaxExtra == 1

---------------------------------------------------------------------------
\* JSON values (serde_json::Value)

J(k, n, s, a) == [k |-> k, n |-> n, s |-> s, a |-> a]
JNull == J("null", 0, "", <<>>)
JBool(b) == J("bool", IF b THEN 1 ELSE 0, "", <<>>)
JInt(n) == J("int", n, "", <<>>)
JFloat(n) == J("float", n, "", <<>>)
JStr(s) == J("str", 0, s, <<>>)
JArr(a) == J("arr", 0, "", a)
KV(key, v) == J("kv", 0, key, <<v>>)
JObj(members) == J("obj", 0, "", members)
NoJson == J("-", 0, "", <<>>)

\* The values of key in an object's members, in order.
RECURSIVE Lookup(_, _)
Lookup(members, key) ==
  IF members = <<>> THEN <<>>
  ELSE (IF Head(members).s = key THEN <<Head(members).a[1]>> ELSE <<>>)
       \o Lookup(Tail(members), key)

---------------------------------------------------------------------------
\* Rust values

V(t, n, s, f) == [t |-> t, n |-> n, s |-> s, f |-> f]
NoValue == V("-", 0, "", <<>>)
VInt(t, n) == V(t, n, "", <<>>)
VF64(n) == V("f64", n, "", <<>>)
NaN == V("f64", 0, "NaN", <<>>)
Infinity == V("f64", 0, "inf", <<>>)
VString(s) == V("String", 0, s, <<>>)
VBool(b) == V("bool", IF b THEN 1 ELSE 0, "", <<>>)
VH256(s) == V("H256", 0, s, <<>>)
None == V("None", 0, "", <<>>)
Some(x) == V("Some", 0, "", <<x>>)
VVec(xs) == V("Vec", 0, "", xs)
VEnum(e, variant) == V(e, 0, variant, <<>>)
VStruct(s, fields) == V(s, 0, "", fields)
\* Price::Float(x), Price::String(s), RemainingOrError::Remaining(x), ::Error(s)
VUntagged(e, variant, x) == V(e, 0, variant, <<x>>)
\* Operation::<constructor i>(payload)
VOperation(i, payload) == V("Operation", i, "", <<payload>>)

\* Result<T, serde_json::Error>; err names the serde::de::Error constructor.
Ok(v) == [ok |-> TRUE, v |-> v, err |-> ""]
Err(e) == [ok |-> FALSE, v |-> NoValue, err |-> e]
NoResult == [ok |-> FALSE, v |-> NoValue, err |-> "-"]

\* A field: its name, its type (wrap is "", "Option" or "Vec"), and whether it
\* carries #[serde(skip_serializing_if = "Option::is_none")] and #[serde(default)].
F(name, base, wrap, skip, dflt) ==
  [name |-> name, ty |-> base, wrap |-> wrap, skip_serializing_if |-> skip,
   default |-> dflt]

---------------------------------------------------------------------------
\* The types of src/src/zigzag.rs

\* pub enum OrderStatus: each variant with its #[serde(rename)].
OrderStatus ==
  << [variant |-> "Canceled", rename |-> "c"],
     [variant |-> "Open", rename |-> "o"],
     [variant |-> "Expired", rename |-> "e"],
     [variant |-> "Matched", rename |-> "m"],
     [variant |-> "Rejected", rename |-> "r"],
     [variant |-> "Filled", rename |-> "f"],
     [variant |-> "Broadcasted", rename |-> "b"],
     [variant |-> "PartialFill", rename |-> "pf"],
     [variant |-> "PartialMatch", rename |-> "pm"] >>

\* pub enum Side
Side ==
  << [variant |-> "Buy", rename |-> "b"],
     [variant |-> "Sell", rename |-> "s"] >>

\* pub enum Price, #[serde(untagged)]: the variants in declaration order with
\* the type each holds.
Price ==
  << [variant |-> "Float", ty |-> "f64"],
     [variant |-> "String", ty |-> "String"] >>

\* pub enum RemainingOrError, #[serde(untagged)]
RemainingOrError ==
  << [variant |-> "Remaining", ty |-> "f64"],
     [variant |-> "Error", ty |-> "String"] >>

\* zksync_types::Order is defined by the zksync crate, not by this repository:
\* a record with named camelCase fields, of which two are kept here.
ZksyncOrder ==
  << F(<<"a", "c", "c", "o", "u", "n", "t", "_", "i", "d">>, "u32", "", FALSE, FALSE),
     F(<<"n", "o", "n", "c", "e">>, "u32", "", FALSE, FALSE) >>

\* pub enum Operation: one entry per constructor, in declaration order, with the
\* type of its payload (Box<T> is T on the wire).
Operation ==
  << [name |-> <<"L", "o", "g", "i", "n">>, args |-> "LoginArgs"],
     [name |-> <<"S", "u", "b", "m", "i", "t", "o", "r", "d", "e", "r", "3">>, args |-> "Submitorder3Args"],
     [name |-> <<"I", "n", "d", "i", "c", "a", "t", "e", "l", "i", "q", "2">>, args |-> "Indicateliq2Args"],
     [name |-> <<"F", "i", "l", "l", "r", "e", "q", "u", "e", "s", "t">>, args |-> "FillrequestArgs"],
     [name |-> <<"U", "s", "e", "r", "o", "r", "d", "e", "r", "m", "a", "t", "c", "h">>, args |-> "UserordermatchArgs"],
     [name |-> <<"O", "r", "d", "e", "r", "r", "e", "c", "e", "i", "p", "t", "r", "e", "q">>, args |-> "OrderreceiptreqArgs"],
     [name |-> <<"O", "r", "d", "e", "r", "r", "e", "c", "e", "i", "p", "t">>, args |-> "Order"],
     [name |-> <<"F", "i", "l", "l", "r", "e", "c", "e", "i", "p", "t", "r", "e", "q">>, args |-> "FillreceiptreqArgs"],
     [name |-> <<"F", "i", "l", "l", "r", "e", "c", "e", "i", "p", "t">>, args |-> "Fill"],
     [name |-> <<"O", "r", "d", "e", "r", "s">>, args |-> "OrdersArgs"],
     [name |-> <<"F", "i", "l", "l", "s">>, args |-> "FillsArgs"],
     [name |-> <<"F", "i", "l", "l", "s", "t", "a", "t", "u", "s">>, args |-> "FillstatusArgs"],
     [name |-> <<"L", "i", "q", "u", "i", "d", "i", "t", "y", "2">>, args |-> "Liquidity2Args"],
     [name |-> <<"R", "e", "f", "r", "e", "s", "h", "l", "i", "q", "u", "i", "d", "i", "t", "y">>, args |-> "RefreshliquidityArgs"],
     [name |-> <<"L", "a", "s", "t", "p", "r", "i", "c", "e">>, args |-> "LastpriceArgs"],
     [name |-> <<"M", "a", "r", "k", "e", "t", "s", "u", "m", "m", "a", "r", "y">>, args |-> "MarketsummaryArgs"],
     [name |-> <<"S", "u", "b", "s", "c", "r", "i", "b", "e", "m", "a", "r", "k", "e", "t">>, args |-> "SubscribemarketArgs"],
     [name |-> <<"U", "n", "s", "u", "b", "s", "c", "r", "i", "b", "e", "m", "a", "r", "k", "e", "t">>, args |-> "UnsubscribemarketArgs"],
     [name |-> <<"U", "s", "e", "r", "o", "r", "d", "e", "r", "a", "c", "k">>, args |-> "UserorderackArgs"],
     [name |-> <<"C", "a", "n", "c", "e", "l", "a", "l", "l">>, args |-> "CancelallArgs"],
     [name |-> <<"R", "e", "q", "u", "e", "s", "t", "q", "u", "o", "t", "e">>, args |-> "RequestquoteArgs"],
     [name |-> <<"Q", "u", "o", "t", "e">>, args |-> "QuoteArgs"],
     [name |-> <<"M", "a", "r", "k", "e", "t", "i", "n", "f", "o">>, args |-> "MarketinfoArgs"],
     [name |-> <<"M", "a", "r", "k", "e", "t", "i", "n", "f", "o", "2">>, args |-> "Marketinfo2Args"],
     [name |-> <<"M", "a", "r", "k", "e", "t", "r", "e", "q">>, args |-> "MarketreqArgs"],
     [name |-> <<"D", "a", "i", "l", "y", "v", "o", "l", "u", "m", "e", "r", "e", "q">>, args |-> "DailyvolumereqArgs"],
     [name |-> <<"D", "a", "i", "l", "y", "v", "o", "l", "u", "m", "e">>, args |-> "DailyvolumeArgs"],
     [name |-> <<"E", "r", "r", "o", "r">>, args |-> "ErrorArgs"] >>

LoginArgs ==
  << F("chain_id", "u32", "", FALSE, FALSE),
     F("user_id", "String", "", FALSE, FALSE) >>

Submitorder3Args ==
  << F("chain_id", "u32", "", FALSE, FALSE),
     F("market", "String", "", FALSE, FALSE),
     F("zk_order", "ZksyncOrder", "", FALSE, FALSE) >>

Indicateliq2Args ==
  << F("chain_id", "u32", "", FALSE, FALSE),
     F("market", "String", "", FALSE, FALSE),
     F("liquidity", "Liquidity", "Vec", FALSE, FALSE) >>

Liquidity ==
  << F("side", "Side", "", FALSE, FALSE),
     F("price", "Price", "", FALSE, FALSE),
     F("base_quantity", "f64", "", FALSE, FALSE),
     F("expires", "u64", "Option", TRUE, TRUE) >>

FillrequestArgs ==
  << F("chain_id", "u32", "", FALSE, FALSE),
     F("order_id", "u32", "", FALSE, FALSE),
     F("fill_order", "ZksyncOrder", "", FALSE, FALSE) >>

UserordermatchArgs ==
  << F("chain_id", "u32", "", FALSE, FALSE),
     F("taker_order", "ZksyncOrder", "", FALSE, FALSE),
     F("maker_order", "ZksyncOrder", "", FALSE, FALSE) >>

OrderreceiptreqArgs ==
  << F("chain_id", "u32", "", FALSE, FALSE),
     F("order_id", "u32", "", FALSE, FALSE) >>

Order ==
  << F("chain_id", "u32", "", FALSE, FALSE),
     F("id", "u32", "", FALSE, FALSE),
     F("market", "String", "", FALSE, FALSE),
     F("side", "Side", "", FALSE, FALSE),
     F("price", "Price", "", FALSE, FALSE),
     F("base_quantity", "f64", "", FALSE, FALSE),
     F("quote_quantity", "f64", "", FALSE, FALSE),
     F("expires", "u64", "", FALSE, FALSE),
     F("user_id", "String", "", FALSE, FALSE),
     F("order_status", "OrderStatus", "", FALSE, FALSE),
     F("remaining", "f64", "Option", TRUE, TRUE),
     F("tx_hash", "H256", "Option", TRUE, TRUE) >>

UserorderackArgs ==
  << F("chain_id", "u32", "", FALSE, FALSE),
     F("id", "u32", "", FALSE, FALSE),
     F("market", "String", "", FALSE, FALSE),
     F("side", "Side", "", FALSE, FALSE),
     F("price", "Price", "", FALSE, FALSE),
     F("base_quantity", "f64", "", FALSE, FALSE),
     F("quote_quantity", "f64", "", FALSE, FALSE),
     F("expires", "u64", "", FALSE, FALSE),
     F("user_id", "String", "", FALSE, FALSE),
     F("order_status", "OrderStatus", "", FALSE, FALSE),
     F("tx_hash", "H256", "Option", TRUE, TRUE),
     F("remaining", "f64", "", FALSE, FALSE) >>

FillreceiptreqArgs ==
  << F("chain_id", "u32", "", FALSE, FALSE),
     F("order_id", "u32", "", FALSE, FALSE) >>

Fill ==
  << F("chain_id", "u32", "", FALSE, FALSE),
     F("id", "u32", "", FALSE, FALSE),
     F("market", "String", "", FALSE, FALSE),
     F("side", "Side", "", FALSE, FALSE),
     F("price", "Price", "", FALSE, FALSE),
     F("base_quantity", "f64", "", FALSE, FALSE),
     F("fill_status", "OrderStatus", "", FALSE, FALSE),
     F("tx_hash", "H256", "Option", FALSE, FALSE),
     F("taker_user_id", "String", "", FALSE, FALSE),
     F("maker_user_id", "String", "", FALSE, FALSE),
     F("fee_amount", "f64", "Option", FALSE, FALSE),
     F("fee_token", "String", "Option", FALSE, FALSE),
     F("timestamp", "String", "Option", TRUE, TRUE) >>

OrderUpdate ==
  << F("chain_id", "u32", "", FALSE, FALSE),
     F("order_id", "u32", "", FALSE, FALSE),
     F("status", "OrderStatus", "", FALSE, FALSE) >>

OrdersArgs ==
  << F("orders", "Order", "Vec", FALSE, FALSE) >>

FillsArgs ==
  << F("fills", "Fill", "Vec", FALSE, FALSE) >>

OrderstatusArgs ==
  << F("updates", "OrderUpdate", "Vec", FALSE, FALSE) >>

FillStatus ==
  << F("chain_id", "u32", "", FALSE, FALSE),
     F("full_id", "u32", "", FALSE, FALSE),
     F("status", "OrderStatus", "", FALSE, FALSE),
     F("tx_hash", "H256", "", FALSE, FALSE),
     F("remaining", "f64", "", FALSE, FALSE),
     F("fee_amount", "f64", "", FALSE, FALSE),
     F("fee_token", "String", "", FALSE, FALSE),
     F("timestamp", "u64", "", FALSE, FALSE) >>

FillstatusArgs ==
  << F("statuses", "FillStatus", "Vec", FALSE, FALSE) >>

Liquidity2Args ==
  << F("chain_id", "u32", "", FALSE, FALSE),
     F("market", "String", "", FALSE, FALSE),
     F("liquidity", "Liquidity", "Vec", FALSE, FALSE) >>

RefreshliquidityArgs ==
  << F("chain_id", "u32", "", FALSE, FALSE),
     F("market", "String", "", FALSE, FALSE) >>

PriceUpdate ==
  << F("market", "String", "", FALSE, FALSE),
     F("price", "Price", "", FALSE, FALSE),
     F("price_change", "Price", "", FALSE, FALSE),
     F("quote_volume", "f64", "Option", TRUE, TRUE),
     F("base_volume", "f64", "Option", TRUE, TRUE) >>

LastpriceArgs ==
  << F("updates", "PriceUpdate", "Vec", FALSE, FALSE) >>

MarketsummaryArgs ==
  << F("market", "String", "", FALSE, FALSE),
     F("price", "Price", "", FALSE, FALSE),
     F("high_24", "Price", "", FALSE, FALSE),
     F("low_24", "Price", "", FALSE, FALSE),
     F("price_change", "Price", "", FALSE, FALSE),
     F("base_volume", "f64", "", FALSE, FALSE),
     F("quote_volume", "f64", "", FALSE, FALSE) >>

SubscribemarketArgs ==
  << F("chain_id", "u32", "", FALSE, FALSE),
     F("market", "String", "", FALSE, FALSE) >>

UnsubscribemarketArgs ==
  << F("chain_id", "u32", "", FALSE, FALSE),
     F("market", "String", "", FALSE, FALSE) >>

CancelorderArgs ==
  << F("chain_id", "u32", "", FALSE, FALSE),
     F("order_id", "u32", "", FALSE, FALSE) >>

CancelallArgs ==
  << F("chain_id", "u32", "", FALSE, FALSE),
     F("user_id", "String", "", FALSE, FALSE) >>

RequestquoteArgs ==
  << F("chain_id", "u32", "", FALSE, FALSE),
     F("market", "String", "", FALSE, FALSE),
     F("side", "Side", "", FALSE, FALSE),
     F("base_quantity", "f64", "", FALSE, FALSE),
     F("quote_quantity", "f64", "", FALSE, FALSE) >>

QuoteArgs ==
  << F("chain_id", "u32", "", FALSE, FALSE),
     F("market", "String", "", FALSE, FALSE),
     F("side", "Side", "", FALSE, FALSE),
     F("base_quantity", "f64", "", FALSE, FALSE),
     F("price", "Price", "", FALSE, FALSE),
     F("quote_quantity", "f64", "", FALSE, FALSE) >>

Asset ==
  << F(<<"i", "d">>, "u32", "", FALSE, FALSE),
     F(<<"a", "d", "d", "r", "e", "s", "s">>, "String", "", FALSE, FALSE),
     F(<<"s", "y", "m", "b", "o", "l">>, "String", "", FALSE, FALSE),
     F(<<"d", "e", "c", "i", "m", "a", "l", "s">>, "u32", "", FALSE, FALSE),
     F(<<"e", "n", "a", "b", "l", "e", "d", "_", "f", "o", "r", "_", "f", "e", "e", "s">>, "bool", "", FALSE, FALSE) >>

MarketInfo ==
  << F(<<"b", "a", "s", "e", "_", "a", "s", "s", "e", "t", "_", "i", "d">>, "u32", "", FALSE, FALSE),
     F(<<"q", "u", "o", "t", "e", "_", "a", "s", "s", "e", "t", "_", "i", "d">>, "u32", "", FALSE, FALSE),
     F(<<"b", "a", "s", "e", "_", "f", "e", "e">>, "Price", "", FALSE, FALSE),
     F(<<"q", "u", "o", "t", "e", "_", "f", "e", "e">>, "Price", "", FALSE, FALSE),
     F(<<"z", "i", "g", "z", "a", "g", "_", "c", "h", "a", "i", "n", "_", "i", "d">>, "u32", "", FALSE, FALSE),
     F(<<"p", "r", "i", "c", "e", "_", "p", "r", "e", "c", "i", "s", "i", "o", "n", "_", "d", "e", "c", "i", "m", "a", "l">>, "u32", "", FALSE, FALSE),
     F(<<"b", "a", "s", "e", "_", "a", "s", "s", "e", "t">>, "Asset", "", FALSE, FALSE),
     F(<<"q", "u", "o", "t", "e", "_", "a", "s", "s", "e", "t">>, "Asset", "", FALSE, FALSE),
     F(<<"a", "l", "i", "a", "s">>, "String", "", FALSE, FALSE) >>

MarketinfoArgs ==
  << F("market_info", "MarketInfo", "", FALSE, FALSE) >>

Marketinfo2Args ==
  << F("market_infos", "MarketInfo", "Vec", FALSE, FALSE) >>

MarketreqArgs ==
  << F("chain_id", "u32", "", FALSE, FALSE),
     F("detailed", "bool", "", FALSE, FALSE) >>

DailyvolumereqArgs ==
  << F("chain_req", "u32", "", FALSE, FALSE) >>

Volume ==
  << F("chain_id", "u32", "", FALSE, FALSE),
     F("market", "String", "", FALSE, FALSE),
     F("date", "String", "", FALSE, FALSE),
     F("base_volume", "f64", "", FALSE, FALSE),
     F("quote_volume", "f64", "", FALSE, FALSE) >>

DailyvolumeArgs ==
  << F("volumes", "Volume", "Vec", FALSE, FALSE) >>

ErrorArgs ==
  << F("operation", "String", "", FALSE, FALSE),
     F("error", "String", "", FALSE, FALSE) >>

\* The field list of the struct named s.
Fields(s) ==
  CASE s = "LoginArgs" -> LoginArgs
    [] s = "Submitorder3Args" -> Submitorder3Args
    [] s = "Indicateliq2Args" -> Indicateliq2Args
    [] s = "Liquidity" -> Liquidity
    [] s = "FillrequestArgs" -> FillrequestArgs
    [] s = "UserordermatchArgs" -> UserordermatchArgs
    [] s = "OrderreceiptreqArgs" -> OrderreceiptreqArgs
    [] s = "Order" -> Order
    [] s = "UserorderackArgs" -> UserorderackArgs
    [] s = "FillreceiptreqArgs" -> FillreceiptreqArgs
    [] s = "Fill" -> Fill
    [] s = "OrderUpdate" -> OrderUpdate
    [] s = "OrdersArgs" -> OrdersArgs
    [] s = "FillsArgs" -> FillsArgs
    [] s = "OrderstatusArgs" -> OrderstatusArgs
    [] s = "FillStatus" -> FillStatus
    [] s = "FillstatusArgs" -> FillstatusArgs
    [] s = "Liquidity2Args" -> Liquidity2Args
    [] s = "RefreshliquidityArgs" -> RefreshliquidityArgs
    [] s = "PriceUpdate" -> PriceUpdate
    [] s = "LastpriceArgs" -> LastpriceArgs
    [] s = "MarketsummaryArgs" -> MarketsummaryArgs
    [] s = "SubscribemarketArgs" -> SubscribemarketArgs
    [] s = "UnsubscribemarketArgs" -> UnsubscribemarketArgs
    [] s = "CancelorderArgs" -> CancelorderArgs
    [] s = "CancelallArgs" -> CancelallArgs
    [] s = "RequestquoteArgs" -> RequestquoteArgs
    [] s = "QuoteArgs" -> QuoteArgs
    [] s = "MarketinfoArgs" -> MarketinfoArgs
    [] s = "Marketinfo2Args" -> Marketinfo2Args
    [] s = "MarketreqArgs" -> MarketreqArgs
    [] s = "DailyvolumereqArgs" -> DailyvolumereqArgs
    [] s = "Volume" -> Volume
    [] s = "DailyvolumeArgs" -> DailyvolumeArgs
    [] s = "ErrorArgs" -> ErrorArgs
    [] s = "Asset" -> Asset
    [] s = "MarketInfo" -> MarketInfo
    [] s = "ZksyncOrder" -> ZksyncOrder

\* Structs deriving Serialize_tuple / Deserialize_tuple (positional on the wire).
TupleStructs ==
  { "LoginArgs", "Submitorder3Args", "Indicateliq2Args", "Liquidity",
    "FillrequestArgs", "UserordermatchArgs", "OrderreceiptreqArgs", "Order",
    "UserorderackArgs", "FillreceiptreqArgs", "Fill", "OrderUpdate",
    "OrdersArgs", "FillsArgs", "OrderstatusArgs", "FillStatus",
    "FillstatusArgs", "Liquidity2Args", "RefreshliquidityArgs", "PriceUpdate",
    "LastpriceArgs", "MarketsummaryArgs", "SubscribemarketArgs", "UnsubscribemarketArgs",
    "CancelorderArgs", "CancelallArgs", "RequestquoteArgs", "QuoteArgs",
    "MarketinfoArgs", "Marketinfo2Args", "MarketreqArgs", "DailyvolumereqArgs",
    "Volume", "DailyvolumeArgs", "ErrorArgs" }

\* Structs deriving plain Serialize / Deserialize with rename_all = "camelCase".
NamedStructs == { "Asset", "MarketInfo", "ZksyncOrder" }

\* The types with unit variants, the untagged ones, and the primitives.
UnitEnums == {"OrderStatus", "Side"}
UntaggedEnums == {"Price", "RemainingOrError"}
Primitives == {"u32", "u64", "f64", "String", "bool", "H256"}

UnitVariants(e) == IF e = "OrderStatus" THEN OrderStatus ELSE Side
UntaggedVariants(e) == IF e = "Price" THEN Price ELSE RemainingOrError

---------------------------------------------------------------------------
\* serde's rename rules

UpperCase ==
  << "A", "B", "C", "D", "E", "F", "G", "H", "I", "J", "K", "L", "M",
     "N", "O", "P", "Q", "R", "S", "T", "U", "V", "W", "X", "Y", "Z" >>
LowerCase ==
  << "a", "b", "c", "d", "e", "f", "g", "h", "i", "j", "k", "l", "m",
     "n", "o", "p", "q", "r", "s", "t", "u", "v", "w", "x", "y", "z" >>

to_ascii_lowercase(c) ==
  IF \E i \in 1..26 : UpperCase[i] = c
  THEN LowerCase[CHOOSE i \in 1..26 : UpperCase[i] = c]
  ELSE c

to_ascii_uppercase(c) ==
  IF \E i \in 1..26 : LowerCase[i] = c
  THEN UpperCase[CHOOSE i \in 1..26 : LowerCase[i] = c]
  ELSE c

\* The characters of a name as one string.
RECURSIVE Join(_)
Join(cs) == IF cs = <<>> THEN "" ELSE Head(cs) \o Join(Tail(cs))

\* Mutant: no rename_all, the variant name as declared.
RenameNone(name) == name

\* #[serde(rename_all = "lowercase")] on a variant name.
RenameAllLowercase(name) == [i \in DOMAIN name |-> to_ascii_lowercase(name[i])]

\* RenameRule::PascalCase on a field name: drop each '_' and capitalize the
\* character after it (and the first).
RECURSIVE PascalCase(_, _)
PascalCase(name, capitalize) ==
  IF name = <<>> THEN <<>>
  ELSE IF Head(name) = "_" THEN PascalCase(Tail(name), TRUE)
  ELSE IF capitalize
       THEN <<to_ascii_uppercase(Head(name))>> \o PascalCase(Tail(name), FALSE)
       ELSE <<Head(name)>> \o PascalCase(Tail(name), FALSE)

\* #[serde(rename_all = "camelCase")] on a field name.
RenameAllCamelCase(name) ==
  LET pascal == PascalCase(name, TRUE)
  IN  IF pascal = <<>> THEN <<>>
      ELSE <<to_ascii_lowercase(Head(pascal))>> \o Tail(pascal)

\* The wire tags of the constructors of Operation, derived once from the names.
Tags == [i \in DOMAIN Operation |-> Join(RenameAllLowercase(Operation[i].name))]

\* The wire tag of constructor i of Operation.
Tag(i) == Tags[i]

\* The wire key of a field of a struct with named fields.
Key(f) == Join(RenameAllCamelCase(f.name))

---------------------------------------------------------------------------
\* Serialization (serde::Serialize as derived, into serde_json)

\* serde_json writes a non-finite f64 as null.
SerializeF64(x) == IF x.s = "" THEN JFloat(x.n) ELSE JNull

SerializePrimitive(base, v) ==
  CASE base \in {"u32", "u64"} -> JInt(v.n)
    [] base = "f64" -> SerializeF64(v)
    [] base = "bool" -> JBool(v.n = 1)
    [] base \in {"String", "H256"} -> JStr(v.s)

\* A unit variant is written as its renamed name.
SerializeUnitVariant(e, v) ==
  LET vs == UnitVariants(e)
  IN  JStr(vs[CHOOSE i \in DOMAIN vs : vs[i].variant = v.s].rename)

\* Mutant: every form is written as a string.
SerializeUntaggedAsString(e, v) ==
  IF v.f[1].t = "f64" THEN JStr(ToString(v.f[1].n)) ELSE JStr(v.f[1].s)

\* An untagged enum is written as the value its variant holds.
SerializeUntagged(e, v) ==
  LET vs == UntaggedVariants(e)
  IN  SerializePrimitive(vs[CHOOSE i \in DOMAIN vs : vs[i].variant = v.s].ty, v.f[1])

\* Mutant: every absent Option field is left out, marked or not.
SkipSerializingEveryNone(f, v) == v = None

\* Whether the derived Serialize leaves the field out: skip_serializing_if
\* names Option::is_none, and the test is made per field, wherever it stands.
SkipSerializing(f, v) == f.skip_serializing_if /\ v = None

RECURSIVE Serialize(_, _, _), SerializeTupleFields(_, _, _),
          SerializeStructFields(_, _, _)

\* Serialize_tuple: the fields that are not skipped, in declaration order.
SerializeTupleFields(fs, vals, i) ==
  IF i > Len(fs) THEN <<>>
  ELSE (IF SkipSerializing(fs[i], vals[i]) THEN <<>>
        ELSE <<Serialize(fs[i].ty, fs[i].wrap, vals[i])>>)
       \o SerializeTupleFields(fs, vals, i + 1)

\* Serialize on a struct with named fields: one member per field.
SerializeStructFields(fs, vals, i) ==
  IF i > Len(fs) THEN <<>>
  ELSE (IF SkipSerializing(fs[i], vals[i]) THEN <<>>
        ELSE <<KV(Key(fs[i]), Serialize(fs[i].ty, fs[i].wrap, vals[i]))>>)
       \o SerializeStructFields(fs, vals, i + 1)

\* #[serde(tag = "op", content = "args")]: the tag, then the payload.
SerializeOperation(v) ==
  JObj(<< KV("op", JStr(Tag(v.n))),
          KV("args", Serialize(Operation[v.n].args, "", v.f[1])) >>)

Serialize(base, wrap, v) ==
  CASE wrap = "Option" ->
         IF v = None THEN JNull ELSE Serialize(base, "", v.f[1])
    [] wrap = "Vec" ->
         JArr([i \in 1..Len(v.f) |-> Serialize(base, "", v.f[i])])
    [] wrap = "" /\ base \in Primitives -> SerializePrimitive(base, v)
    [] wrap = "" /\ base \in UnitEnums -> SerializeUnitVariant(base, v)
    [] wrap = "" /\ base \in UntaggedEnums -> SerializeUntagged(base, v)
    [] wrap = "" /\ base \in TupleStructs ->
         JArr(SerializeTupleFields(Fields(base), v.f, 1))
    [] wrap = "" /\ base \in NamedStructs ->
         JObj(SerializeStructFields(Fields(base), v.f, 1))
    [] wrap = "" /\ base = "Operation" -> SerializeOperation(v)

---------------------------------------------------------------------------
\* Deserialization (serde::Deserialize as derived, from serde_json)

\* The strings that parse as an H256: "0x" and 64 hexadecimal digits.
HexStrings ==
  { "0x600ad64c7a931753bbd3ad24cc21efb8513de1dab67daf25b934db8d01f91ed9" }

\* Mutant: an f64 is taken from a floating point number only.
DeserializeF64Strict(j) ==
  IF j.k = "float" THEN Ok(VF64(j.n)) ELSE Err("invalid_type")

\* An f64 is taken from any JSON number, an integer converted.
DeserializeF64(j) ==
  IF j.k = "int" THEN Ok(VF64(j.n * 10))
  ELSE IF j.k = "float" THEN Ok(VF64(j.n))
  ELSE Err("invalid_type")

DeserializePrimitive(base, j) ==
  CASE base \in {"u32", "u64"} ->
         IF j.k = "int"
         THEN (IF j.n >= 0 THEN Ok(VInt(base, j.n)) ELSE Err("invalid_value"))
         ELSE Err("invalid_type")
    [] base = "f64" -> DeserializeF64(j)
    [] base = "bool" ->
         IF j.k = "bool" THEN Ok(VBool(j.n = 1)) ELSE Err("invalid_type")
    [] base = "String" ->
         IF j.k = "str" THEN Ok(VString(j.s)) ELSE Err("invalid_type")
    [] base = "H256" ->
         IF j.k = "str"
         THEN (IF j.s \in HexStrings THEN Ok(VH256(j.s)) ELSE Err("custom"))
         ELSE Err("invalid_type")

\* Mutant: the variant's own name is accepted beside its code.
VariantOfCodeOrName(e, code) ==
  LET vs == UnitVariants(e)
      hit == {i \in DOMAIN vs : vs[i].rename = code \/ vs[i].variant = code}
  IN  IF hit # {} THEN Ok(VEnum(e, vs[CHOOSE i \in hit : TRUE].variant))
      ELSE Err("unknown_variant")

\* The variant whose renamed name is the string, or unknown_variant.
VariantOfCode(e, code) ==
  LET vs == UnitVariants(e)
  IN  IF \E i \in DOMAIN vs : vs[i].rename = code
      THEN Ok(VEnum(e, vs[CHOOSE i \in DOMAIN vs : vs[i].rename = code].variant))
      ELSE Err("unknown_variant")

\* An enum of unit variants: a string, or an object of one member whose key
\* names the variant and whose value is null.
DeserializeUnitVariant(e, j) ==
  CASE j.k = "str" -> VariantOfCode(e, j.s)
    [] j.k = "obj" ->
         IF Len(j.a) # 1 THEN Err("invalid_value")
         ELSE LET r == VariantOfCode(e, j.a[1].s)
              IN  IF ~r.ok THEN r
                  ELSE IF j.a[1].a[1] = JNull THEN r ELSE Err("invalid_type")
    [] OTHER -> Err("invalid_type")

\* Mutant: only the first variant is tried.
DeserializeUntaggedFirstOnly(e, j) ==
  LET vs == UntaggedVariants(e)
      r == DeserializePrimitive(vs[1].ty, j)
  IN  IF r.ok THEN Ok(VUntagged(e, vs[1].variant, r.v)) ELSE Err("untagged")

\* #[serde(untagged)]: the first variant, in declaration order, that the
\* buffered value deserializes to; none: "data did not match any variant".
DeserializeUntagged(e, j) ==
  LET vs == UntaggedVariants(e)
      fits == {i \in DOMAIN vs : DeserializePrimitive(vs[i].ty, j).ok}
  IN  IF fits = {} THEN Err("untagged")
      ELSE LET i == CHOOSE i \in fits : \A k \in fits : i <= k
           IN  Ok(VUntagged(e, vs[i].variant, DeserializePrimitive(vs[i].ty, j).v))

\* Mutant: a tag of no constructor falls to the last constructor, Error.
VariantOfTagOrOther(tag) ==
  IF \E i \in DOMAIN Operation : Tag(i) = tag
  THEN Ok(CHOOSE i \in DOMAIN Operation : Tag(i) = tag)
  ELSE Ok(Len(Operation))

\* The constructor whose tag is the string: the tag is compared as it stands.
VariantOfTag(tag) ==
  IF \E i \in DOMAIN Operation : Tag(i) = tag
  THEN Ok(CHOOSE i \in DOMAIN Operation : Tag(i) = tag)
  ELSE Err("unknown_variant")

RECURSIVE Deserialize(_, _, _), DeserializeSeq(_, _, _),
          DeserializeTupleFields(_, _, _), DeserializeStructFields(_, _, _)

RECURSIVE DeserializeSeqLenient(_, _, _)

\* Mutant: an element that fails to decode is left out of the list.
DeserializeSeqLenient(base, arr, i) ==
  IF i > Len(arr) THEN Ok(<<>>)
  ELSE LET r == Deserialize(base, "", arr[i])
           rest == DeserializeSeqLenient(base, arr, i + 1)
       IN  IF ~r.ok THEN rest
           ELSE IF ~rest.ok THEN rest ELSE Ok(<<r.v>> \o rest.v)

\* Vec<T>: every element, the first error ending it.
DeserializeSeq(base, arr, i) ==
  IF i > Len(arr) THEN Ok(<<>>)
  ELSE LET r == Deserialize(base, "", arr[i])
       IN  IF ~r.ok THEN r
           ELSE LET rest == DeserializeSeq(base, arr, i + 1)
                IN  IF ~rest.ok THEN rest ELSE Ok(<<r.v>> \o rest.v)

\* The derived visit_seq: field i takes element i; when the array has ended a
\* field with #[serde(default)] takes its default and any other is invalid_length.
DeserializeTupleFields(fs, arr, i) ==
  IF i > Len(fs) THEN Ok(<<>>)
  ELSE LET r == IF i <= Len(arr) THEN Deserialize(fs[i].ty, fs[i].wrap, arr[i])
                ELSE IF fs[i].default THEN Ok(None)
                ELSE Err("invalid_length")
       IN  IF ~r.ok THEN r
           ELSE LET rest == DeserializeTupleFields(fs, arr, i + 1)
                IN  IF ~rest.ok THEN rest ELSE Ok(<<r.v>> \o rest.v)

\* Mutant: elements left over are ignored.
DeserializeTupleLenient(s, j) ==
  IF j.k # "arr" THEN Err("invalid_type")
  ELSE LET r == DeserializeTupleFields(Fields(s), j.a, 1)
       IN  IF ~r.ok THEN r ELSE Ok(VStruct(s, r.v))

\* Deserialize_tuple: an array, and serde_json refuses elements left over.
DeserializeTuple(s, j) ==
  IF j.k # "arr" THEN Err("invalid_type")
  ELSE LET r == DeserializeTupleFields(Fields(s), j.a, 1)
       IN  IF ~r.ok THEN r
           ELSE IF Len(j.a) > Len(Fields(s)) THEN Err("invalid_length")
           ELSE Ok(VStruct(s, r.v))

\* The derived visit_map: each field from the member of its key, members of
\* other keys ignored; a missing Option is None, any other is missing_field.
DeserializeStructFields(fs, members, i) ==
  IF i > Len(fs) THEN Ok(<<>>)
  ELSE LET found == Lookup(members, Key(fs[i]))
           r == IF found # <<>> THEN Deserialize(fs[i].ty, fs[i].wrap, found[1])
                ELSE IF fs[i].wrap = "Option" \/ fs[i].default THEN Ok(None)
                ELSE Err("missing_field")
       IN  IF ~r.ok THEN r
           ELSE LET rest == DeserializeStructFields(fs, members, i + 1)
                IN  IF ~rest.ok THEN rest ELSE Ok(<<r.v>> \o rest.v)

\* A struct with named fields: an object by key, or an array by position.
DeserializeStruct(s, j) ==
  CASE j.k = "obj" ->
         LET r == DeserializeStructFields(Fields(s), j.a, 1)
         IN  IF ~r.ok THEN r ELSE Ok(VStruct(s, r.v))
    [] j.k = "arr" -> DeserializeTuple(s, j)
    [] OTHER -> Err("invalid_type")

\* The payload of constructor i from the args value.
DeserializeContent(i, args) ==
  LET r == Deserialize(Operation[i].args, "", args)
  IN  IF ~r.ok THEN r ELSE Ok(VOperation(i, r.v))

\* The adjacently tagged enum: an object with an "op" and an "args" member in
\* either order (other members ignored), or the array [op, args].
DeserializeOperation(j) ==
  CASE j.k = "obj" ->
         LET op == Lookup(j.a, "op")
             args == Lookup(j.a, "args")
         IN  IF op = <<>> THEN Err("missing_field")
             ELSE IF op[1].k # "str" THEN Err("invalid_type")
             ELSE LET c == VariantOfTag(op[1].s)
                  IN  IF ~c.ok THEN c
                      ELSE IF args = <<>> THEN Err("missing_field")
                      ELSE DeserializeContent(c.v, args[1])
    [] j.k = "arr" ->
         IF Len(j.a) = 0 THEN Err("invalid_length")
         ELSE IF j.a[1].k # "str" THEN Err("invalid_type")
         ELSE LET c == VariantOfTag(j.a[1].s)
              IN  IF ~c.ok THEN c
                  ELSE IF Len(j.a) = 1 THEN Err("invalid_length")
                  ELSE LET r == DeserializeContent(c.v, j.a[2])
                       IN  IF ~r.ok THEN r
                           ELSE IF Len(j.a) > 2 THEN Err("invalid_length")
                           ELSE r
    [] OTHER -> Err("invalid_type")

Deserialize(base, wrap, j) ==
  CASE wrap = "Option" ->
         IF j = JNull THEN Ok(None)
         ELSE LET r == Deserialize(base, "", j)
              IN  IF ~r.ok THEN r ELSE Ok(Some(r.v))
    [] wrap = "Vec" ->
         IF j.k # "arr" THEN Err("invalid_type")
         ELSE LET r == DeserializeSeq(base, j.a, 1)
              IN  IF ~r.ok THEN r ELSE Ok(VVec(r.v))
    [] wrap = "" /\ base \in Primitives -> DeserializePrimitive(base, j)
    [] wrap = "" /\ base \in UnitEnums -> DeserializeUnitVariant(base, j)
    [] wrap = "" /\ base \in UntaggedEnums -> DeserializeUntagged(base, j)
    [] wrap = "" /\ base \in TupleStructs -> DeserializeTuple(base, j)
    [] wrap = "" /\ base \in NamedStructs -> DeserializeStruct(base, j)
    [] wrap = "" /\ base = "Operation" -> DeserializeOperation(j)

---------------------------------------------------------------------------
\* The values a caller constructs and the frames a peer sends

\* The types a caller serializes or deserializes.
Types == Primitives \cup UnitEnums \cup UntaggedEnums \cup TupleStructs
         \cup NamedStructs \cup {"Operation"}

\* Every sequence over S of at most n elements.
SeqsUpTo(S, n) == UNION {[1..k -> S] : k \in 0..n}

\* The sampled values of a primitive type; d is how deep the value sits inside
\* the value under test, and deeper values are sampled more thinly.
PrimitiveValues(base, d) ==
  CASE base = "u32" -> IF d = 0 THEN {VInt(base, 0), VInt(base, 1000)}
                       ELSE {VInt(base, 1000)}
    [] base = "u64" -> {VInt(base, 16426779)}
    [] base = "f64" -> IF d = 0 THEN {VF64(0), VF64(3), VF64(33000), NaN, Infinity}
                       ELSE {VF64(3)}
    [] base = "bool" -> IF d = 0 THEN {VBool(TRUE), VBool(FALSE)} ELSE {VBool(TRUE)}
    [] base = "String" -> IF d = 0
                          THEN {VString(""), VString("3300"), VString("ETH-USDT"),
                                VString("3370.9"), VString("-0.5"), VString("1e3"),
                                VString("5."), VString("."), VString(" 3300"),
                                VString("NaN"), VString("inf")}
                          ELSE {VString("ETH-USDT")}
    [] base = "H256" -> {VH256(h) : h \in HexStrings}

UnitVariantValues(e, d) ==
  LET vs == UnitVariants(e)
  IN  {VEnum(e, vs[i].variant) :
         i \in IF d <= 1 THEN DOMAIN vs ELSE IF d = 2 THEN {1, Len(vs)} ELSE {1}}

UntaggedValues(e, d) ==
  LET vs == UntaggedVariants(e)
  IN  UNION {{VUntagged(e, vs[i].variant, x) :
                x \in IF d = 0 THEN PrimitiveValues(vs[i].ty, 0)
                      ELSE IF vs[i].ty = "f64" THEN {VF64(33000)}
                      ELSE {VString("3300")}} :
             i \in IF d <= 2 THEN DOMAIN vs ELSE {1}}

RECURSIVE Values(_, _, _), FieldValues(_, _, _)

\* Every choice of a value for each of the fields from the i-th on.
FieldValues(fs, i, d) ==
  IF i > Len(fs) THEN {<<>>}
  ELSE {<<x>> \o rest : x \in Values(fs[i].ty, fs[i].wrap, d),
                        rest \in FieldValues(fs, i + 1, d)}

Values(base, wrap, d) ==
  CASE wrap = "Option" -> {None} \cup {Some(x) : x \in Values(base, "", d)}
    [] wrap = "Vec" -> {VVec(xs) : xs \in SeqsUpTo(Values(base, "", d + 1), MaxVecLen)}
    [] wrap = "" /\ base \in Primitives -> PrimitiveValues(base, d)
    [] wrap = "" /\ base \in UnitEnums -> UnitVariantValues(base, d)
    [] wrap = "" /\ base \in UntaggedEnums -> UntaggedValues(base, d)
    [] wrap = "" /\ base \in TupleStructs \cup NamedStructs ->
         {VStruct(base, fv) : fv \in FieldValues(Fields(base), 1, d + 1)}
    [] wrap = "" /\ base = "Operation" ->
         UNION {{VOperation(i, p) : p \in Values(Operation[i].args, "", d + 1)} :
                i \in DOMAIN Operation}

\* JSON values of every kind, well-typed for no record.
Junk ==
  { JNull, JBool(TRUE), JBool(FALSE), JInt(1), JInt(3300), JInt(0 - 1), JFloat(15),
    JFloat(33000), JStr(""), JStr("3300"), JStr("Not enough balance"),
    JStr("PartialFill"), JStr("Buy"), JStr("B"), JStr("pf"), JStr("b"), JStr("s"),
    JArr(<<>>), JArr(<<JInt(1)>>), JObj(<<>>), JObj(<<KV("c", JNull)>>),
    JObj(<<KV("s", JInt(1))>>) }

\* The positional array of a record with every field written (None as null).
FullArray(s, v) ==
  [i \in 1..Len(Fields(s)) |-> Serialize(Fields(s)[i].ty, Fields(s)[i].wrap, v.f[i])]

\* Arrays for the record s: a full array cut short at any length, or extended
\* by up to MaxExtra elements, or with one element replaced by a boolean.
Arrays(s, d) ==
  UNION {
    LET full == FullArray(s, v)
    IN  {JArr(SubSeq(full, 1, k)) : k \in 0..Len(full)}
        \cup {JArr(full \o [i \in 1..k |-> JInt(1)]) : k \in 1..MaxExtra}
        \cup {JArr([full EXCEPT ![i] = JBool(TRUE)]) : i \in 1..Len(full)}
    : v \in Values(s, "", d) }

\* The element g of a list with something changed: a boolean in its place; for
\* a record written as an array, the array cut short at any length, extended
\* by one element, or with one element replaced by a boolean or by the string
\* "B"; for a record written as an object, the empty object.
Malformed(g) ==
  {JBool(TRUE)}
  \cup (IF g.k = "arr"
        THEN {JArr(SubSeq(g.a, 1, n)) : n \in 0..(Len(g.a) - 1)}
             \cup {JArr(g.a \o <<JInt(1)>>)}
             \cup {JArr([g.a EXCEPT ![i] = x]) :
                     i \in 1..Len(g.a), x \in {JBool(TRUE), JStr("B")}}
        ELSE {JObj(<<>>)})

\* Arrays for the record s in which a list of one element holds such a changed
\* element: in place of the element, after it, or before it.
NestedArrays(s, d) ==
  UNION {
    LET full == FullArray(s, v)
    IN  UNION {{JArr([full EXCEPT ![k] = JArr(es)]) :
                  es \in UNION {{<<x>>, full[k].a \o <<x>>, <<x>> \o full[k].a} :
                                 x \in Malformed(full[k].a[1])}} :
               k \in {k \in 1..Len(full) :
                        Fields(s)[k].wrap = "Vec" /\ Len(full[k].a) = 1}}
    : v \in Values(s, "", d) }

\* Tags of no constructor.
BadTags == {"bogus", "orderstatus", "Login", "LOGIN", ""}

\* Envelopes: each tag with arrays of its record, also with lists holding
\* malformed elements; each bad tag with junk, with a
\* login payload and with a batch of order updates; and envelopes with the
\* members the other way round, with a further member, with a member missing,
\* and in the array form.
Envelopes ==
  LET login == JArr(<<JInt(1000), JStr("27334")>>)
      updates == JArr(<<JArr(<<JArr(<<JInt(1000), JInt(5), JStr("m")>>)>>)>>)
  IN  UNION {{JObj(<<KV("op", JStr(Tag(i))), KV("args", a)>>) :
                a \in Arrays(Operation[i].args, 3)
                      \cup NestedArrays(Operation[i].args, 3)
                      \cup {JNull, JObj(<<>>)}} :
             i \in DOMAIN Operation}
      \cup {JObj(<<KV("op", JStr(t)), KV("args", a)>>) :
              t \in BadTags, a \in Junk \cup {login, updates}}
      \cup {JObj(<<KV("args", a), KV("op", JStr(t))>>) :
              t \in BadTags \cup {"login"}, a \in {login, JNull}}
      \cup {JObj(<<KV("op", JStr(t)), KV("id", JInt(1)), KV("args", login)>>) :
              t \in BadTags \cup {"login"}}
      \cup {JObj(<<KV("op", JStr(t))>>) : t \in BadTags \cup {"login"}}
      \cup {JObj(<<KV("args", login)>>), JObj(<<KV("op", JInt(0)), KV("args", login)>>)}
      \cup {JArr(<<JStr(t)>> \o a) :
              t \in BadTags \cup {"login"}, a \in {<<>>, <<login>>, <<login, JNull>>}}

\* The frames received for the type t.
Frames(t) ==
  Junk
  \cup (IF t \in TupleStructs THEN Arrays(t, 1) ELSE {})
  \cup (IF t \in NamedStructs
        THEN {Serialize(t, "", v) : v \in Values(t, "", 1)} \cup Arrays(t, 1)
        ELSE {})
  \cup (IF t = "Operation" THEN Envelopes ELSE {})

---------------------------------------------------------------------------
\* Price::float_value and the f64::from_str it calls

\* The characters of the strings that occur in values and frames.
Strings ==
  { <<>>,
    <<"3", "3", "0", "0">>,
    <<"3", "3", "7", "0", ".", "9">>,
    <<"-", "0", ".", "5">>,
    <<"1", "e", "3">>,
    <<"5", ".">>,
    <<".">>,
    <<" ", "3", "3", "0", "0">>,
    <<"N", "a", "N">>,
    <<"i", "n", "f">>,
    <<"E", "T", "H", "-", "U", "S", "D", "T">>,
    <<"N", "o", "t", " ", "e", "n", "o", "u", "g", "h", " ",
      "b", "a", "l", "a", "n", "c", "e">>,
    <<"P", "a", "r", "t", "i", "a", "l", "F", "i", "l", "l">>,
    <<"B", "u", "y">>, <<"B">>, <<"p", "f">>, <<"b">>, <<"s">> }

\* Each string with its characters.
CharsOf == {<<Join(cs), cs>> : cs \in Strings}

\* s.chars()
Chars(s) == (CHOOSE p \in CharsOf : p[1] = s)[2]

Digits == <<"0", "1", "2", "3", "4", "5", "6", "7", "8", "9">>

IsDigit(c) == \E i \in 1..10 : Digits[i] = c

DigitValue(c) == (CHOOSE i \in 1..10 : Digits[i] = c) - 1

AllDigits(cs) == \A i \in DOMAIN cs : IsDigit(cs[i])

RECURSIVE DigitsValue(_)

\* The number a run of decimal digits denotes.
DigitsValue(cs) ==
  IF cs = <<>> THEN 0
  ELSE DigitsValue(SubSeq(cs, 1, Len(cs) - 1)) * 10 + DigitValue(cs[Len(cs)])

RECURSIVE Pow10(_)

Pow10(n) == IF n = 0 THEN 1 ELSE 10 * Pow10(n - 1)

\* The first position of cs holding a character of S, or 0.
IndexOf(cs, S) ==
  IF \E i \in DOMAIN cs : cs[i] \in S
  THEN CHOOSE i \in DOMAIN cs : cs[i] \in S /\ \A k \in 1..(i - 1) : cs[k] \notin S
  ELSE 0

NegInfinity == V("f64", 0, "-inf", <<>>)

\* The grammar of f64::from_str: an optional sign, then inf, infinity or nan in
\* any case, or digits with an optional point and an optional exponent, at
\* least one digit before or after the point; nothing is trimmed.  The value
\* is in tenths: m * 10^(e - |fraction|) is m * 10^(e - |fraction| + 1) tenths.
ParseNumber(cs) ==
  LET signed == cs # <<>> /\ cs[1] \in {"+", "-"}
      neg == cs # <<>> /\ cs[1] = "-"
      body == IF signed THEN Tail(cs) ELSE cs
      low == [i \in DOMAIN body |-> to_ascii_lowercase(body[i])]
      e == IndexOf(body, {"e", "E"})
      mant == IF e = 0 THEN body ELSE SubSeq(body, 1, e - 1)
      expo == IF e = 0 THEN <<>> ELSE SubSeq(body, e + 1, Len(body))
      expsigned == expo # <<>> /\ expo[1] \in {"+", "-"}
      expneg == expo # <<>> /\ expo[1] = "-"
      expdigits == IF expsigned THEN Tail(expo) ELSE expo
      dot == IndexOf(mant, {"."})
      int == IF dot = 0 THEN mant ELSE SubSeq(mant, 1, dot - 1)
      frac == IF dot = 0 THEN <<>> ELSE SubSeq(mant, dot + 1, Len(mant))
      m == DigitsValue(int \o frac)
      x == IF expneg THEN 0 - DigitsValue(expdigits) ELSE DigitsValue(expdigits)
      p == x - Len(frac) + 1
      tenths == IF p >= 0 THEN m * Pow10(p) ELSE m \div Pow10(0 - p)
  IN  IF low \in {<<"i", "n", "f">>, <<"i", "n", "f", "i", "n", "i", "t", "y">>}
      THEN Ok(IF neg THEN NegInfinity ELSE Infinity)
      ELSE IF low = <<"n", "a", "n">> THEN Ok(NaN)
      ELSE IF /\ AllDigits(int) /\ AllDigits(frac)
              /\ Len(int) + Len(frac) >= 1
              /\ e # 0 => expdigits # <<>> /\ AllDigits(expdigits)
           THEN Ok(VF64(IF neg THEN 0 - tenths ELSE tenths))
           ELSE Err("ParseFloatError")

\* Mutant: surrounding whitespace is trimmed before parsing.
f64_from_str_trimmed(cs) ==
  LET RECURSIVE TrimStart(_)
      TrimStart(xs) == IF xs # <<>> /\ xs[1] = " " THEN TrimStart(Tail(xs)) ELSE xs
  IN  ParseNumber(TrimStart(cs))

\* f64::from_str(s)
f64_from_str(cs) == ParseNumber(cs)

\* Price::float_value(&self)
float_value(self) ==
  IF self.s = "Float" THEN self.f[1]
  ELSE LET r == f64_from_str(Chars(self.f[1].s))
       IN  IF r.ok THEN r.v ELSE VF64(0)

---------------------------------------------------------------------------
\* The state machine

Init ==
  /\ ty \in Types
  /\ \/ /\ pc = "constructed"
        /\ value \in Values(ty, "", 0)
        /\ json = NoJson
     \/ /\ pc = "received"
        /\ value = NoValue
        /\ json \in Frames(ty)
  /\ result = NoResult
  /\ float = NoValue

\* serde_json::to_value(&value) / to_string(&value)
ToValue ==
  /\ pc = "constructed"
  /\ json' = Serialize(ty, "", value)
  /\ pc' = "encoded"
  /\ UNCHANGED <<ty, value, result, float>>

\* serde_json::from_str::<T>(frame), on what was serialized or received
FromStr ==
  /\ pc \in {"encoded", "received"}
  /\ result' = Deserialize(ty, "", json)
  /\ pc' = "decoded"
  /\ UNCHANGED <<ty, value, json, float>>

\* The Price at hand: the one constructed, else the one decoded.
Self == IF value # NoValue THEN value ELSE result.v

\* price.float_value(), on a Price constructed or decoded
FloatValue ==
  /\ ty = "Price"
  /\ Self # NoValue
  /\ float' = float_value(Self)
  /\ UNCHANGED <<ty, value, json, result, pc>>

Next == ToValue \/ FromStr \/ FloatValue

Spec == Init /\ [][Next]_vars

---------------------------------------------------------------------------
\* Properties

\* Whether no f64 inside the value is NaN or infinite.
RECURSIVE AllFinite(_)
AllFinite(v) ==
  /\ v.t = "f64" => v.s = ""
  /\ \A i \in DOMAIN v.f : AllFinite(v.f[i])

\* The catalogued tags, as the message catalog writes them.
CatalogTags ==
  { "login", "submitorder3", "indicateliq2", "fillrequest", "userordermatch",
    "orderreceiptreq", "orderreceipt", "fillreceiptreq", "fillreceipt", "orders",
    "fills", "fillstatus", "liquidity2", "refreshliquidity", "lastprice",
    "marketsummary", "subscribemarket", "unsubscribemarket", "userorderack",
    "cancelall", "requestquote", "quote", "marketinfo", "marketinfo2", "marketreq",
    "dailyvolumereq", "dailyvolume", "error" }

\* The "op" and "args" members of an envelope.
OpOf(j) == Lookup(j.a, "op")
ArgsOf(j) == Lookup(j.a, "args")

\* C1 (as claimed): for every Operation value whose floats are finite, decoding
\* the envelope that encoding produced succeeds and yields an equal value.
C1_RoundTrip ==
  (pc = "decoded" /\ ty = "Operation" /\ value # NoValue /\ AllFinite(value))
    => result = Ok(value)

\* C2: an envelope whose op string is none of the catalogued lower-case tags
\* fails to decode with unknown_variant (UnknownOperationTag), whatever its
\* args, wherever the op member stands; no Operation is produced.
C2_UnknownTagFails ==
  (pc = "decoded" /\ ty = "Operation" /\ json.k = "obj" /\ OpOf(json) # <<>>
     /\ OpOf(json)[1].k = "str" /\ OpOf(json)[1].s \notin CatalogTags)
    => (~result.ok /\ result.err = "unknown_variant" /\ result.v = NoValue)

\* C2 witness: the excluded tag "orderstatus", sent with a batch of order
\* updates of the shape OrderstatusArgs takes, was refused.
C2_Witness ==
  /\ pc = "decoded" /\ ty = "Operation"
  /\ json = JObj(<< KV("op", JStr("orderstatus")),
                    KV("args", JArr(<<JArr(<<JArr(<<JInt(1000), JInt(5), JStr("m")>>)>>)>>)) >>)
  /\ result = Err("unknown_variant")

\* The fields of a record that encoding leaves out: absent and marked omissible.
Omitted(s, v) ==
  {i \in DOMAIN Fields(s) : Fields(s)[i].skip_serializing_if /\ v.f[i] = None}

\* The length of the trailing run of absent Option fields of a record value.
TrailingAbsent(s, v) ==
  LET n == Len(Fields(s))
  IN  Cardinality({k \in 1..n : \A i \in k..n : Fields(s)[i].wrap = "Option" /\ v.f[i] = None})

\* C3 (amended): encoding a record emits its fields in declaration order and
\* leaves out exactly the absent fields marked omissible; the array has N minus
\* that many elements, and an absent Option field not so marked is written null.
C3_EncodedLength ==
  (pc = "encoded" /\ ty \in TupleStructs) =>
    LET fs == Fields(ty)
        out == Omitted(ty, value)
        pos(i) == Cardinality({k \in 1..i : k \notin out})
    IN  /\ json.k = "arr"
        /\ Len(json.a) = Len(fs) - Cardinality(out)
        /\ \A i \in DOMAIN fs :
             i \notin out => json.a[pos(i)] = Serialize(fs[i].ty, fs[i].wrap, value.f[i])
        /\ \A i \in DOMAIN fs :
             (i \notin out /\ value.f[i] = None) => json.a[pos(i)] = JNull
        /\ (ty = "Liquidity" => Len(json.a) = IF value.f[4] = None THEN 3 ELSE 4)
        /\ (ty = "Fill" /\ value.f[11] = None /\ value.f[12] = None /\ value.f[13] = None)
             => Len(json.a) = 12

\* C3 witness: a Fill with fee_amount, fee_token and timestamp absent was
\* encoded to 12 elements, the two fees as null.
C3_Witness ==
  /\ pc = "encoded" /\ ty = "Fill"
  /\ value.f[11] = None /\ value.f[12] = None /\ value.f[13] = None
  /\ Len(json.a) = 12 /\ json.a[11] = JNull /\ json.a[12] = JNull

\* C3 (as claimed), on the records none of whose omitted fields is followed by
\* an emitted one: a record whose last j Option fields are absent encodes to
\* N - j elements with no null among them for those fields.
C3_TrailingOmitted ==
  (pc = "encoded" /\ ty \in TupleStructs
     /\ \A i \in Omitted(ty, value) : \A k \in i..Len(Fields(ty)) : k \in Omitted(ty, value))
    => Len(json.a) = Len(Fields(ty)) - TrailingAbsent(ty, value)

\* C4 (as claimed): every element of an encoded record sits at the index of
\* its field's declaration position.
C4_IndexIsDeclarationPosition ==
  (pc = "encoded" /\ ty \in TupleStructs) =>
    \A i \in DOMAIN json.a :
      json.a[i] = Serialize(Fields(ty)[i].ty, Fields(ty)[i].wrap, value.f[i])

\* Whether each element of the array suits the field of its index.
WellTyped(s, arr) ==
  \A i \in DOMAIN arr :
    i <= Len(Fields(s)) => Deserialize(Fields(s)[i].ty, Fields(s)[i].wrap, arr[i]).ok

\* The number of trailing fields a decoder may find missing: the trailing run
\* of fields marked #[serde(default)].
TrailingDefault(s) ==
  LET n == Len(Fields(s))
  IN  Cardinality({k \in 1..n : \A i \in k..n : Fields(s)[i].default})

\* The number of trailing optional fields as the message catalog marks them.
TrailingOptional(s) ==
  LET n == Len(Fields(s))
  IN  Cardinality({k \in 1..n : \A i \in k..n : Fields(s)[i].wrap = "Option"})

\* What the arity rule says of decoding the array arr to the record s with the
\* last K fields optional.
ArityRule(s, K, arr, r) ==
  LET fs == Fields(s)
  IN  IF Len(fs) - K <= Len(arr) /\ Len(arr) <= Len(fs)
      THEN /\ r.ok
           /\ r.v.t = s
           /\ \A i \in DOMAIN fs :
                r.v.f[i] = IF i <= Len(arr)
                           THEN Deserialize(fs[i].ty, fs[i].wrap, arr[i]).v
                           ELSE None
      ELSE ~r.ok /\ r.err = "invalid_length"

LowerCased(name) == Join([i \in DOMAIN name |-> to_ascii_lowercase(name[i])])

\* The lower-cased name of each constructor of Operation.
LowerCasedNames == [i \in DOMAIN Operation |-> LowerCased(Operation[i].name)]

\* C6: the wire tag of every constructor is its name lower-cased: encoding
\* emits the two members op and args with op the lower-cased name; the tags of
\* distinct constructors differ and are the catalogued ones; and an envelope
\* with the tag of constructor C and a payload valid for C decodes to C, as does
\* every envelope that decodes.
C6_TagIsLowercasedName ==
  /\ \A i, k \in DOMAIN Operation : i # k => LowerCasedNames[i] # LowerCasedNames[k]
  /\ {LowerCasedNames[i] : i \in DOMAIN Operation} = CatalogTags
  /\ (pc = "encoded" /\ ty = "Operation") =>
       /\ json.k = "obj" /\ Len(json.a) = 2
       /\ json.a[1].s = "op" /\ json.a[2].s = "args"
       /\ json.a[1].a[1] = JStr(LowerCasedNames[value.n])
  /\ (pc = "decoded" /\ ty = "Operation" /\ json.k = "obj"
        /\ OpOf(json) # <<>> /\ ArgsOf(json) # <<>>) =>
       \A i \in DOMAIN Operation :
         (OpOf(json)[1] = JStr(LowerCasedNames[i])
            /\ Deserialize(Operation[i].args, "", ArgsOf(json)[1]).ok)
           => (result.ok /\ result.v.t = "Operation" /\ result.v.n = i)
  /\ (pc = "decoded" /\ ty = "Operation" /\ json.k = "obj" /\ result.ok) =>
       OpOf(json)[1] = JStr(LowerCasedNames[result.v.n])

\* C6 witness: Login{1000, "ETH-USDT"} was encoded to {"op":"login","args":[1000,
\* "ETH-USDT"]} and decoded back to Login.
C6_Witness ==
  /\ pc = "decoded" /\ ty = "Operation"
  /\ json = JObj(<< KV("op", JStr("login")),
                    KV("args", JArr(<<JInt(1000), JStr("ETH-USDT")>>)) >>)
  /\ value = VOperation(1, VStruct("LoginArgs", <<VInt("u32", 1000), VString("ETH-USDT")>>))
  /\ result = Ok(value)

\* C7: decoding a Price goes by the kind of the JSON value alone: a number,
\* integer or fractional, gives the float variant; a string gives the string
\* variant unchanged; null, a boolean, an array or an object fails
\* (TypeMismatch: "data did not match any variant of untagged enum Price").
C7_PriceByKind ==
  (pc = "decoded" /\ ty = "Price") =>
    CASE json.k = "int" -> result = Ok(VUntagged("Price", "Float", VF64(json.n * 10)))
      [] json.k = "float" -> result = Ok(VUntagged("Price", "Float", VF64(json.n)))
      [] json.k = "str" -> result = Ok(VUntagged("Price", "String", VString(json.s)))
      [] OTHER -> ~result.ok /\ result.err = "untagged" /\ result.v = NoValue

\* C7 witness: the received integer 3300 was decoded to Price::Float(3300.0).
C7_Witness ==
  /\ pc = "decoded" /\ ty = "Price" /\ value = NoValue
  /\ json = JInt(3300)
  /\ result = Ok(VUntagged("Price", "Float", VF64(33000)))

\* C8: decoding a RemainingOrError goes by the kind of the JSON value alone: a
\* number gives Remaining (1 gives Remaining(1.0)), a string gives Error even
\* when it looks numeric, every other kind fails (TypeMismatch).
C8_RemainingOrErrorByKind ==
  /\ (pc = "decoded" /\ ty = "RemainingOrError" /\ json.k \in {"int", "float"}) =>
       /\ result.ok /\ result.v.t = "RemainingOrError" /\ result.v.s = "Remaining"
       /\ result.v.f[1] = VF64(IF json.k = "int" THEN json.n * 10 ELSE json.n)
  /\ (pc = "decoded" /\ ty = "RemainingOrError" /\ json.k = "str") =>
       /\ result.ok /\ result.v.t = "RemainingOrError" /\ result.v.s = "Error"
       /\ result.v.f[1] = VString(json.s)
  /\ (pc = "decoded" /\ ty = "RemainingOrError"
        /\ json.k \notin {"int", "float", "str"}) =>
       (~result.ok /\ result.err = "untagged")
  /\ (pc = "decoded" /\ ty = "RemainingOrError" /\ json = JInt(1)) =>
       result = Ok(VUntagged("RemainingOrError", "Remaining", VF64(10)))

\* C8 witness: the received string "3300" was decoded to Error("3300").
C8_Witness ==
  /\ pc = "decoded" /\ ty = "RemainingOrError" /\ value = NoValue
  /\ json = JStr("3300")
  /\ result = Ok(VUntagged("RemainingOrError", "Error", VString("3300")))

\* The registered short codes of each enumeration.
RegisteredCodes(e) ==
  IF e = "OrderStatus" THEN {"c", "o", "e", "m", "r", "f", "b", "pf", "pm"}
  ELSE {"b", "s"}

\* The values of each enumeration.
Members(e) ==
  IF e = "OrderStatus"
  THEN {"Canceled", "Open", "Expired", "Matched", "Rejected", "Filled",
        "Broadcasted", "PartialFill", "PartialMatch"}
  ELSE {"Buy", "Sell"}

\* C9: for OrderStatus (9 values) and Side (2 values) the short codes are a
\* bijection between the values and the registered codes: every value encodes
\* to a registered code, no two values to the same, decoding the code gives the
\* value back, and a string that is no registered code of the enumeration
\* (its member's name, say) fails with unknown_variant (UnknownCode).
C9_ShortCodeBijection ==
  /\ \A e \in UnitEnums :
       /\ Cardinality(Members(e)) = Cardinality(RegisteredCodes(e))
       /\ {Serialize(e, "", VEnum(e, m)).s : m \in Members(e)} = RegisteredCodes(e)
       /\ \A m \in Members(e) :
            Deserialize(e, "", Serialize(e, "", VEnum(e, m))) = Ok(VEnum(e, m))
  /\ (pc = "encoded" /\ ty \in UnitEnums) =>
       (json.k = "str" /\ json.s \in RegisteredCodes(ty))
  /\ (pc = "decoded" /\ ty \in UnitEnums /\ value # NoValue) => result = Ok(value)
  /\ (pc = "decoded" /\ ty \in UnitEnums /\ json.k = "str") =>
       IF json.s \in RegisteredCodes(ty)
       THEN result.ok /\ result.v.s \in Members(ty) /\ Serialize(ty, "", result.v) = json
       ELSE ~result.ok /\ result.err = "unknown_variant"

\* C9 witness: the member's own name "PartialFill" was refused as an
\* OrderStatus.
C9_Witness ==
  /\ pc = "decoded" /\ ty = "OrderStatus" /\ json = JStr("PartialFill")
  /\ result = Err("unknown_variant")

\* What C10 says of a Price value once encoded and once decoded.
PricePreserved ==
  /\ pc \in {"encoded", "decoded"} =>
       IF value.s = "Float"
       THEN json = JFloat(value.f[1].n)
       ELSE json = JStr(value.f[1].s)
  /\ pc = "decoded" => result = Ok(value)

\* C10 (amended): encoding a Price whose float is finite keeps the form it was
\* built with: the float form is written as a JSON number, the string form as
\* a JSON string of the same contents, and decoding gives the same variant and
\* content back.
C10_FinitePricePreserved ==
  (ty = "Price" /\ value # NoValue /\ AllFinite(value)) => PricePreserved

\* C10 witness: Price::Float(3300.0) was encoded to a number and decoded back.
C10_Witness ==
  /\ pc = "decoded" /\ ty = "Price"
  /\ value = VUntagged("Price", "Float", VF64(33000))
  /\ json = JFloat(33000) /\ result = Ok(value)

\* C10 (as claimed): the same of every Price.
C10_PricePreserved ==
  (ty = "Price" /\ value # NoValue) => PricePreserved

\* The sampled strings that f64::from_str accepts, with the number each denotes.
ParsedFloats ==
  { <<"3300", VF64(33000)>>, <<"3370.9", VF64(33709)>>, <<"-0.5", VF64(0 - 5)>>,
    <<"1e3", VF64(10000)>>, <<"5.", VF64(50)>>, <<"NaN", NaN>>, <<"inf", Infinity>> }

\* What float_value is to return for the Price p.
FloatOf(p) ==
  IF p.s = "Float" THEN p.f[1]
  ELSE IF \E q \in ParsedFloats : q[1] = p.f[1].s
  THEN (CHOOSE q \in ParsedFloats : q[1] = p.f[1].s)[2]
  ELSE VF64(0)

\* C11: Price::float_value never fails and always returns an f64: the stored
\* value for the float form; for the string form the parsed number when the
\* string parses as a float ("3300" gives 3300.0) and 0.0 for every string that
\* does not parse; and the call leaves the Price, and everything else, unchanged.
C11_FloatValue ==
  /\ [](float # NoValue => float.t = "f64" /\ float = FloatOf(Self))
  /\ [][float' # float => value' = value /\ result' = result /\ json' = json]_vars

\* A Price decoded from the JSON string "3300" whose float_value is 3300.0.
C11_Witness ==
  /\ pc = "decoded"
  /\ json = JStr("3300")
  /\ Self = VUntagged("Price", "String", VString("3300"))
  /\ float = VF64(33000)

\* Whether a field may be left out of a frame: a trailing position marked
\* default in an array, an Option or a default member in an object.
Required(f, keyed) == ~f.default /\ ~(keyed /\ f.wrap = "Option")

RECURSIVE PartFails(_, _, _)

\* Whether j, standing where a base (wrapped by wrap) is expected, or a leaf,
\* a nested record or an element of a list inside j, fails to decode at the type
\* declared for its place.
PartFails(base, wrap, j) ==
  \/ ~Deserialize(base, wrap, j).ok
  \/ /\ wrap = "Vec" /\ j.k = "arr"
     /\ \E i \in DOMAIN j.a : PartFails(base, "", j.a[i])
  \/ /\ wrap = "Option" /\ j # JNull
     /\ PartFails(base, "", j)
  \/ /\ wrap = "" /\ base \in TupleStructs \cup NamedStructs /\ j.k = "arr"
     /\ \E i \in DOMAIN j.a :
          /\ i <= Len(Fields(base))
          /\ PartFails(Fields(base)[i].ty, Fields(base)[i].wrap, j.a[i])
  \/ /\ wrap = "" /\ base \in NamedStructs /\ j.k = "obj"
     /\ \E i \in DOMAIN Fields(base) :
          LET found == Lookup(j.a, Key(Fields(base)[i]))
          IN  /\ found # <<>>
              /\ PartFails(Fields(base)[i].ty, Fields(base)[i].wrap, found[1])

RECURSIVE Kept(_, _, _, _)

\* Whether the value v decoded from j has every required field of every record
\* from an element of the frame, and every list as long as the list of the frame.
Kept(base, wrap, j, v) ==
  CASE wrap = "Vec" ->
         /\ v.t = "Vec" /\ j.k = "arr" /\ Len(v.f) = Len(j.a)
         /\ \A i \in DOMAIN j.a : Kept(base, "", j.a[i], v.f[i])
    [] wrap = "Option" ->
         IF j = JNull THEN v = None
         ELSE v.t = "Some" /\ Kept(base, "", j, v.f[1])
    [] wrap = "" /\ base \in TupleStructs \cup NamedStructs /\ j.k = "arr" ->
         /\ v.t = base /\ Len(v.f) = Len(Fields(base))
         /\ \A i \in DOMAIN Fields(base) :
              /\ Required(Fields(base)[i], FALSE) => i <= Len(j.a)
              /\ i <= Len(j.a) =>
                   Kept(Fields(base)[i].ty, Fields(base)[i].wrap, j.a[i], v.f[i])
              /\ i > Len(j.a) => v.f[i] = None
    [] wrap = "" /\ base \in NamedStructs /\ j.k = "obj" ->
         /\ v.t = base /\ Len(v.f) = Len(Fields(base))
         /\ \A i \in DOMAIN Fields(base) :
              LET found == Lookup(j.a, Key(Fields(base)[i]))
              IN  /\ Required(Fields(base)[i], TRUE) => found # <<>>
                  /\ found # <<>> =>
                       Kept(Fields(base)[i].ty, Fields(base)[i].wrap, found[1], v.f[i])
                  /\ found = <<>> => v.f[i] = None
    [] OTHER -> v # NoValue /\ v # None

\* The position of the constructor whose tag is t.
TagIndex(t) == CHOOSE i \in DOMAIN Operation : Tags[i] = t

\* C12: decoding an envelope is all-or-nothing: when a leaf, a nested record or
\* an element of a nested record list inside args fails to decode, the whole
\* decode returns an error and no Operation; a decode that succeeds yields the
\* tagged constructor with every required field taken from the frame and every
\* list as long as the list of the frame, no element dropped.
C12_AllOrNothing ==
  (/\ pc = "decoded" /\ ty = "Operation" /\ json.k = "obj"
   /\ Len(OpOf(json)) = 1 /\ Len(ArgsOf(json)) = 1
   /\ \E i \in DOMAIN Operation : JStr(Tags[i]) = OpOf(json)[1])
    => LET i == TagIndex(OpOf(json)[1].s)
           s == Operation[i].args
           a == ArgsOf(json)[1]
       IN  /\ PartFails(s, "", a) => ~result.ok /\ result.v = NoValue
           /\ result.ok =>
                /\ result.v.t = "Operation" /\ result.v.n = i
                /\ Kept(s, "", a, result.v.f[1])

\* C12 witness: an orders envelope whose list holds a well-formed order followed
\* by an order that fails to decode was decoded, and the decode failed.
C12_Witness ==
  /\ pc = "decoded" /\ ty = "Operation" /\ json.k = "obj"
  /\ OpOf(json) = <<JStr("orders")>> /\ Len(ArgsOf(json)) = 1
  /\ LET a == ArgsOf(json)[1]
     IN  /\ a.k = "arr" /\ Len(a.a) = 1 /\ a.a[1].k = "arr" /\ Len(a.a[1].a) = 2
         /\ Deserialize("Order", "", a.a[1].a[1]).ok
         /\ ~Deserialize("Order", "", a.a[1].a[2]).ok
  /\ ~result.ok /\ result.v = NoValue

====
